---- MODULE Spec2Model ----
(***************************************************************************)
(* Model of the Rackster event pipeline:                                   *)
(*   - EventManager  (src/src/events/event-manager.ts), the dispatch hub   *)
(*   - EventNotifier (src/unnamed/part_000), the notifier                  *)
(*                                                                         *)
(* emit is an async function: the code between two awaits runs without     *)
(* interruption, and other calls run while an emit is suspended at an      *)
(* await.  `running` names the emit whose synchronous code is executing;   *)
(* every other operation needs running = 0.                                *)
(*                                                                         *)
(* A JavaScript Set iterates in insertion order and its iterator is live:  *)
(* a member deleted before the cursor reaches it is skipped, a member      *)
(* added during the iteration is visited, a member deleted and added again *)
(* moves to the end.  A Set is modelled as a duplicate-free sequence and   *)
(* an iterator as the number of live members the cursor has passed.        *)
(***************************************************************************)
EXTENDS Integers, Sequences, FiniteSets, TLC

\* ---------------------------------------------------------------- bounds
MaxEmits == 3
MaxCap == 2
MaxCalls == 3
MaxOverlap == 2
MaxFanout == 1

\* ------------------------------------------------------- program constants
DefaultMaxHistorySize == 1000
DefaultLimit == 100

MaxNotify == 1

\* ------------------------------------------------------------- input sets
Kinds == {"chat", "move"}
Severities == {"info", "error"}
Listeners == {"L1", "L2"}
Filters == {"noChat", "throwOnError"}
Wildcard == "*"
Undefined == "undefined"
\* the keys listeners subscribe under
SubKeys == {"chat", Wildcard}

VARIABLES
  listeners,        \* Map<string, Set<EventListener>>: kind -> set
  globalListeners,  \* Set<EventListener>
  filters,          \* Set<EventFilter>
  eventHistory,     \* MinecraftEvent[]
  maxHistorySize,   \* number
  nEmits,           \* number of emit calls made so far
  tasks,            \* the emit calls: tasks[i] is the i-th call
  running,          \* the emit whose synchronous code is executing, or 0
  calls,            \* listener invocations, in the order they happened
  atEmit            \* per emit call: the listeners subscribed when it was made

hubVars == <<listeners, globalListeners, filters, eventHistory,
             maxHistorySize, nEmits, tasks, running, calls, atEmit>>

VARIABLES
  server,               \* McpServer | null, as the capabilities it exposes
  enabled,              \* boolean
  importantEventTypes,  \* Set<string>
  notifs,               \* the notify calls: notifs[n] is the n-th call
  transportCalls,       \* calls of the host's transports, in order
  logSink,              \* what log() was called with, in order
  formatted             \* the notify calls for which formatEventForAI ran

notifierVars == <<server, enabled, importantEventTypes, notifs,
                  transportCalls, logSink, formatted>>

VARIABLES
  now,           \* Date.now(), in milliseconds
  lastMoveTime,  \* registerMovementEvents: when a move signal last passed
  spawnHandler,  \* the handler of bot.once('spawn') is still registered
  signals        \* the signals the bot raised, in order, and what became of them

adapterVars == <<now, lastMoveTime, spawnHandler, signals>>

VARIABLE
  onCount  \* per (key, listener): the on calls observed since the last off

VARIABLE
  opCount  \* the clearHistory and removeAllListeners calls observed

\* ------------------------------------------------- Set<T> as a sequence
Has(s, x) == \E i \in 1..Len(s) : s[i] = x
IndexOf(s, x) == CHOOSE i \in 1..Len(s) : s[i] = x
\* (mutant) an Array instead of a Set: add does not look for the member
SetAddAlways(s, x) == Append(s, x)

SetAdd(s, x) == IF Has(s, x) THEN s ELSE Append(s, x)
SetDelete(s, x) == SelectSeq(s, LAMBDA y : y # x)
Members(s) == {s[i] : i \in 1..Len(s)}

\* An iterator that has passed `idx` live members, after x is deleted.
IterAfterDelete(s, idx, x) ==
  IF Has(s, x) /\ IndexOf(s, x) <= idx THEN idx - 1 ELSE idx

\* ------------------------------------------------------------- events
MkEvent(id, type, severity) ==
  [id |-> id, type |-> type, severity |-> severity]

\* ------------------------------------------------------------- filters
\* The result of one filter on one event: TRUE, FALSE or "throw".
FilterResult(f, e) ==
  CASE f = "noChat" -> IF e.type = "chat" THEN "false" ELSE "true"
    [] f = "throwOnError" -> IF e.severity = "error" THEN "throw" ELSE "true"

\* emit, lines 66-70: the filters in insertion order; the first one that
\* returns false or throws ends the loop.
RECURSIVE RunFiltersFrom(_, _, _)
RunFiltersFrom(fs, i, e) ==
  IF i > Len(fs) THEN "accept"
  ELSE LET r == FilterResult(fs[i], e) IN
       IF r = "false" THEN "reject"
       ELSE IF r = "throw" THEN "throw"
       ELSE RunFiltersFrom(fs, i + 1, e)

\* (mutant) a filter returning false does not end the loop: the last
\* filter decides
RunFiltersLastDecides(fs, e) ==
  IF Len(fs) = 0 THEN "accept"
  ELSE LET r == FilterResult(fs[Len(fs)], e) IN
       IF r = "false" THEN "reject" ELSE IF r = "throw" THEN "throw" ELSE "accept"

\* (mutant) an exception of a filter is caught and the event is accepted
RunFiltersThrowAccepts(fs, e) ==
  LET r == RunFiltersFrom(fs, 1, e) IN IF r = "throw" THEN "accept" ELSE r

RunFilters(fs, e) == RunFiltersFrom(fs, 1, e)

\* ------------------------------------------------------------- history
\* (mutant) evicts as soon as the capacity is reached: >= for >
AddToHistoryEvictsEarly(h, cap, e) ==
  LET pushed == Append(h, e) IN
  IF Len(pushed) >= cap THEN Tail(pushed) ELSE pushed

\* (mutant) a full history keeps its entries and drops the new event
AddToHistoryKeepsOld(h, cap, e) ==
  IF Len(h) >= cap /\ cap > 0 THEN h ELSE Append(h, e)

\* (mutant) the new event goes to the front of the history
AddToHistoryFront(h, cap, e) ==
  LET pushed == <<e>> \o h IN
  IF Len(pushed) > cap THEN SubSeq(pushed, 1, Len(pushed) - 1) ELSE pushed

\* (mutant) the history is cut down to the capacity
AddToHistoryTrims(h, cap, e) ==
  LET pushed == Append(h, e) IN
  IF Len(pushed) > cap THEN SubSeq(pushed, Len(pushed) - cap + 1, Len(pushed)) ELSE pushed

\* addToHistory, lines 154-161: push, then one shift if the length exceeds
\* the capacity
AddToHistory(h, cap, e) ==
  LET pushed == Append(h, e) IN
  IF Len(pushed) > cap THEN Tail(pushed) ELSE pushed

\* Array.prototype.slice(start) with a possibly negative start.
Slice(s, start) ==
  LET n == Len(s)
      k == IF start < 0 THEN (IF n + start < 0 THEN 0 ELSE n + start)
           ELSE (IF start > n THEN n ELSE start)
  IN SubSeq(s, k + 1, n)

GetHistory(eventType, limit) ==
  LET events == IF eventType # Undefined
                THEN SelectSeq(eventHistory, LAMBDA e : e.type = eventType)
                ELSE eventHistory
  IN Slice(events, 0 - limit)

\* ------------------------------------------------------ listener registry
EmptyMap == [k \in {} |-> <<>>]

\* The registry and the suspended emits' iterators, as one value that the
\* operations transform: ls = listeners, gl = globalListeners, tk = tasks.
Hub(ls, gl, tk) == [ls |-> ls, gl |-> gl, tk |-> tk]

\* Does the emit `task` iterate the Set stored under `key` right now?
\* (attached = the Set it iterates is still the one in the Map)
IteratesKey(task, key) ==
  IF key = Wildcard THEN task.pc = "global"
  ELSE task.pc = "type" /\ task.attached /\ task.event.type = key

OnOp(h, key, l) ==
  IF key = Wildcard
  THEN [h EXCEPT !.gl = SetAdd(@, l)]
  ELSE IF key \in DOMAIN h.ls
       THEN [h EXCEPT !.ls[key] = SetAdd(@, l)]
       ELSE [h EXCEPT !.ls = [k \in DOMAIN h.ls \cup {key} |->
                                IF k = key THEN <<l>> ELSE h.ls[k]]]

OffOp(h, key, l) ==
  IF key # Wildcard /\ key \notin DOMAIN h.ls
  THEN h
  ELSE LET s == IF key = Wildcard THEN h.gl ELSE h.ls[key]
           tk2 == [i \in DOMAIN h.tk |->
                     IF IteratesKey(h.tk[i], key)
                     THEN [h.tk[i] EXCEPT !.idx = IterAfterDelete(s, @, l)]
                     ELSE h.tk[i]]
       IN IF key = Wildcard
          THEN [h EXCEPT !.gl = SetDelete(s, l), !.tk = tk2]
          ELSE [h EXCEPT !.ls[key] = SetDelete(s, l), !.tk = tk2]

\* (mutant) removeAllListeners leaves the wildcard listeners subscribed
RemoveAllOpKeepsWildcard(h) ==
  [ls |-> EmptyMap,
   gl |-> h.gl,
   tk |-> [i \in DOMAIN h.tk |->
             IF h.tk[i].pc = "type" /\ h.tk[i].attached
             THEN [h.tk[i] EXCEPT !.attached = FALSE,
                                  !.typeSet = h.ls[h.tk[i].event.type]]
             ELSE h.tk[i]]]

\* listeners.clear() empties the Map, not the Sets that were in it: an emit
\* iterating one of them keeps it.  globalListeners.clear() empties the Set.
RemoveAllOp(h) ==
  [ls |-> EmptyMap,
   gl |-> <<>>,
   tk |-> [i \in DOMAIN h.tk |->
             IF h.tk[i].pc = "type" /\ h.tk[i].attached
             THEN [h.tk[i] EXCEPT !.attached = FALSE,
                                  !.typeSet = h.ls[h.tk[i].event.type]]
             ELSE IF h.tk[i].pc = "global"
                  THEN [h.tk[i] EXCEPT !.idx = 0]
                  ELSE h.tk[i]]]

\* ------------------------------------------------- what a listener may do
\* A listener is arbitrary code.  In the synchronous part of an invocation
\* it may call on/off of the hub (an effect: a sequence of hub calls); it
\* then returns (a value or a promise that fulfils), throws, or returns a
\* promise that rejects.
Outcomes == {"return", "throw", "reject"}

HubCall(op, key, l) == [op |-> op, key |-> key, l |-> l]

NoEffect == <<>>
\* off(key, self); on(key, self) under the key the listener is invoked for
OffOnSelf == <<HubCall("off", "self", "self"), HubCall("on", "self", "self")>>
ReentrantEffects ==
  {NoEffect, OffOnSelf}
  \cup {<<HubCall(op, k, l)>> : op \in {"on", "off"}, k \in SubKeys, l \in Listeners}

RECURSIVE ApplyEffect(_, _, _, _)
ApplyEffect(h, eff, self, key) ==
  IF eff = <<>> THEN h
  ELSE LET c == Head(eff)
           k == IF c.key = "self" THEN key ELSE c.key
           l == IF c.l = "self" THEN self ELSE c.l
           h2 == IF c.op = "on" THEN OnOp(h, k, l) ELSE OffOp(h, k, l)
       IN ApplyEffect(h2, Tail(eff), self, key)

\* ------------------------------------------------------------ emit tasks
\* failedAt: the position in `calls` of the first listener invocation of
\* this emit that threw or rejected (0: none did).
NewTask(e, pc, attached) ==
  [event |-> e, pc |-> pc, idx |-> 0, attached |-> attached,
   typeSet |-> <<>>, pending |-> "none", failedAt |-> 0]

TypeSetOf(task) ==
  IF task.attached THEN listeners[task.event.type] ELSE task.typeSet

Call(t, l, key) == [ev |-> t, l |-> l, key |-> key]

\* (mutant) one try/catch around the loops instead of one per listener:
\* a listener that throws or rejects ends the fan-out
InvokeFailureEndsFanout(t, task, l, key, eff, out) ==
  /\ Len(calls) < MaxCalls
  /\ LET h0 == Hub(listeners, globalListeners, [tasks EXCEPT ![t] = task])
         h1 == ApplyEffect(h0, eff, l, key)
         me == h1.tk[t]
         me2 == IF out = "return"
                THEN [me EXCEPT !.pending = "fulfil"]
                ELSE [me EXCEPT !.pc = "done", !.idx = 0, !.attached = FALSE,
                                !.typeSet = <<>>,
                                !.failedAt = IF @ = 0 THEN Len(calls) + 1 ELSE @]
     IN /\ listeners' = h1.ls
        /\ globalListeners' = h1.gl
        /\ tasks' = [h1.tk EXCEPT ![t] = me2]
        /\ running' = 0
        /\ calls' = Append(calls, Call(t, l, key))

\* One listener invocation `await listener(event)` inside its try/catch:
\* the listener's synchronous part runs; a synchronous throw is caught and
\* the loop goes on at once, otherwise the emit suspends at the await.
Invoke(t, task, l, key, eff, out) ==
  /\ Len(calls) < MaxCalls
  /\ LET h0 == Hub(listeners, globalListeners, [tasks EXCEPT ![t] = task])
         h1 == ApplyEffect(h0, eff, l, key)
         me == h1.tk[t]
         me2 == [me EXCEPT
                   !.pending = IF out = "throw" THEN "none"
                               ELSE IF out = "reject" THEN "reject" ELSE "fulfil",
                   !.failedAt = IF out # "return" /\ @ = 0 THEN Len(calls) + 1 ELSE @]
     IN /\ listeners' = h1.ls
        /\ globalListeners' = h1.gl
        /\ tasks' = [h1.tk EXCEPT ![t] = me2]
        /\ running' = IF out = "throw" THEN t ELSE 0
        /\ calls' = Append(calls, Call(t, l, key))

\* The emit returns: its promise fulfils.
Finish(t, task) ==
  /\ tasks' = [tasks EXCEPT ![t] =
                 [task EXCEPT !.pc = "done", !.idx = 0,
                              !.attached = FALSE, !.typeSet = <<>>]]
  /\ running' = 0
  /\ UNCHANGED <<listeners, globalListeners, calls>>

\* emit, lines 76-95, from the point the emit `task` has reached: the next
\* member of the kind's Set, else the next wildcard listener, else return.
Advance(t, task, eff, out) ==
  IF task.pc = "type" /\ task.idx < Len(TypeSetOf(task))
  THEN Invoke(t, [task EXCEPT !.idx = @ + 1],
              TypeSetOf(task)[task.idx + 1], task.event.type, eff, out)
  ELSE LET g == IF task.pc = "type" THEN 0 ELSE task.idx IN
       IF g < Len(globalListeners)
       THEN Invoke(t, [task EXCEPT !.pc = "global", !.idx = g + 1,
                                   !.attached = FALSE, !.typeSet = <<>>],
                   globalListeners[g + 1], Wildcard, eff, out)
       ELSE /\ eff = NoEffect
            /\ out = "return"
            /\ Finish(t, task)

\* --------------------------------------------------------------- actions
HubInit ==
  /\ listeners = EmptyMap
  /\ globalListeners = <<>>
  /\ filters = <<>>
  /\ eventHistory = <<>>
  /\ maxHistorySize = DefaultMaxHistorySize
  /\ nEmits = 0
  /\ tasks = <<>>
  /\ running = 0
  /\ calls = <<>>
  /\ atEmit = <<>>

OnStep(key, l) ==
  /\ running = 0
  /\ LET h == OnOp(Hub(listeners, globalListeners, tasks), key, l) IN
       /\ listeners' = h.ls
       /\ globalListeners' = h.gl
  /\ UNCHANGED <<filters, eventHistory, maxHistorySize, nEmits, tasks, running,
                 calls, atEmit>>

On(key, l) ==
  /\ OnStep(key, l)
  /\ UNCHANGED <<notifierVars, adapterVars, onCount, opCount>>

OffStep(key, l) ==
  /\ running = 0
  /\ LET h == OffOp(Hub(listeners, globalListeners, tasks), key, l) IN
       /\ listeners' = h.ls
       /\ globalListeners' = h.gl
       /\ tasks' = h.tk
  /\ UNCHANGED <<filters, eventHistory, maxHistorySize, nEmits, running,
                 calls, atEmit>>

Off(key, l) ==
  /\ OffStep(key, l)
  /\ UNCHANGED <<notifierVars, adapterVars, onCount, opCount>>

AddFilter(f) ==
  /\ running = 0
  /\ filters' = SetAdd(filters, f)
  /\ UNCHANGED <<listeners, globalListeners, eventHistory, maxHistorySize,
                 nEmits, tasks, running, calls, atEmit>>
  /\ UNCHANGED <<notifierVars, adapterVars, onCount, opCount>>

RemoveFilter(f) ==
  /\ running = 0
  /\ filters' = SetDelete(filters, f)
  /\ UNCHANGED <<listeners, globalListeners, eventHistory, maxHistorySize,
                 nEmits, tasks, running, calls, atEmit>>
  /\ UNCHANGED <<notifierVars, adapterVars, onCount, opCount>>

ClearHistoryStep ==
  /\ running = 0
  /\ eventHistory' = <<>>
  /\ UNCHANGED <<listeners, globalListeners, filters, maxHistorySize,
                 nEmits, tasks, running, calls, atEmit>>

ClearHistory ==
  /\ ClearHistoryStep
  /\ UNCHANGED <<notifierVars, adapterVars, onCount, opCount>>

RemoveAllListenersStep ==
  /\ running = 0
  /\ LET h == RemoveAllOp(Hub(listeners, globalListeners, tasks)) IN
       /\ listeners' = h.ls
       /\ globalListeners' = h.gl
       /\ tasks' = h.tk
  /\ UNCHANGED <<filters, eventHistory, maxHistorySize, nEmits, running,
                 calls, atEmit>>

RemoveAllListeners ==
  /\ RemoveAllListenersStep
  /\ UNCHANGED <<notifierVars, adapterVars, onCount, opCount>>

SetMaxHistorySize(size) ==
  /\ running = 0
  /\ maxHistorySize' = size
  /\ UNCHANGED <<listeners, globalListeners, filters, eventHistory,
                 nEmits, tasks, running, calls, atEmit>>
  /\ UNCHANGED <<notifierVars, adapterVars, onCount, opCount>>

\* The listeners subscribed for events of kind `type` and for all events.
Subscribed(type) ==
  [type |-> IF type \in DOMAIN listeners THEN Members(listeners[type]) ELSE {},
   wild |-> Members(globalListeners)]

\* emit up to its first listener invocation: the filter chain, then the
\* history append, then listeners.get(event.type).
EmitCallStep(type, severity) ==
  /\ running = 0
  /\ LET id == nEmits + 1
         e == MkEvent(id, type, severity)
         r == RunFilters(filters, e)
     IN /\ nEmits' = id
        /\ atEmit' = Append(atEmit, Subscribed(type))
        /\ IF r = "accept"
           THEN /\ eventHistory' = AddToHistory(eventHistory, maxHistorySize, e)
                /\ tasks' = Append(tasks,
                     IF type \in DOMAIN listeners
                     THEN NewTask(e, "type", TRUE)
                     ELSE NewTask(e, "global", FALSE))
                /\ running' = id
           ELSE /\ tasks' = Append(tasks,
                     NewTask(e, IF r = "reject" THEN "filtered" ELSE "rejected", FALSE))
                /\ UNCHANGED <<eventHistory, running>>
  /\ UNCHANGED <<listeners, globalListeners, filters, maxHistorySize, calls>>

EmitCall(type, severity) ==
  /\ EmitCallStep(type, severity)
  /\ UNCHANGED <<notifierVars, adapterVars, onCount, opCount>>

\* The synchronous code of emit goes on: after the history append, or after
\* a listener threw synchronously.
ContinueStep(t, eff, out) ==
  /\ running = t
  /\ t \in DOMAIN tasks
  /\ Advance(t, tasks[t], eff, out)
  /\ UNCHANGED <<filters, eventHistory, maxHistorySize, nEmits, atEmit>>

Continue(t, eff, out) ==
  /\ ContinueStep(t, eff, out)
  /\ UNCHANGED <<notifierVars, adapterVars, onCount, opCount>>

\* The awaited listener result settles and the suspended emit resumes; a
\* rejection is caught and logged, and the loop goes on.
ResumeStep(t, eff, out) ==
  /\ running = 0
  /\ t \in DOMAIN tasks
  /\ tasks[t].pending # "none"
  /\ Advance(t, [tasks[t] EXCEPT !.pending = "none"], eff, out)
  /\ UNCHANGED <<filters, eventHistory, maxHistorySize, nEmits, atEmit>>

Resume(t, eff, out) ==
  /\ ResumeStep(t, eff, out)
  /\ UNCHANGED <<notifierVars, adapterVars, onCount, opCount>>

vars == <<hubVars, notifierVars, adapterVars, onCount, opCount>>

\* =================================================================
\* EventNotifier
\* =================================================================
NotifierSeverities == {"info", "warning", "error"}
Transports == {"notification", "sendNotification", "prompt"}

\* constructor, lines 17-33
DefaultImportantEventTypes ==
  {"chat", "death", "respawn", "kicked", "error", "entity_hurt",
   "entity_death", "block_break", "block_place", "item_collect", "damage",
   "health_change", "gamemode_change", "spawn", "login"}

\* ------------------------------------------------ JavaScript values
Str(x) == [t |-> "string", s |-> x]
Num(x) == [t |-> "number", n |-> x]
Bool(x) == [t |-> "boolean", b |-> x]
Pos(x, y, z) == [t |-> "object", x |-> x, y |-> y, z |-> z]
Undef == [t |-> "undefined"]

\* ToBoolean
Truthy(v) ==
  CASE v.t = "string" -> v.s # ""
    [] v.t = "number" -> v.n # 0
    [] v.t = "boolean" -> v.b
    [] v.t = "object" -> TRUE
    [] v.t = "undefined" -> FALSE

\* event.data: undefined, or a record of named fields
NoData == [defined |-> FALSE, f |-> [k \in {} |-> Undef]]
Data(f) == [defined |-> TRUE, f |-> f]
Field(f, name) == IF name \in DOMAIN f THEN f[name] ELSE Undef

Payloads ==
  << NoData,
     Data([position |-> Pos(1, 2, 3)]),
     Data([username |-> Str("bob"), message |-> Str("hi"), isBot |-> Bool(FALSE)]),
     Data([isBot |-> Bool(FALSE), onGround |-> Bool(TRUE)]),
     Data([message |-> Str("hi"), reason |-> Str("lava"), blockName |-> Str("stone"),
           entityType |-> Str("zombie"), maxHealth |-> Num(20), health |-> Num(0),
           username |-> Str("bob"), position |-> Pos(1, 2, 3),
           isWhisper |-> Bool(TRUE)]),
     Data([username |-> Str(""), health |-> Num(5), reason |-> Str("fell")]) >>

\* the payloads of the events passed to notify (indices into Payloads)
NotifierPayloads == {2}

NotifierEvent(type, severity, p) ==
  [type |-> type, severity |-> severity, description |-> <<"about", type>>,
   data |-> Payloads[p]]

\* ------------------------------------------------------- formatting
Part(label, value) == [label |-> label, value |-> value]

PartIf(cond, label, value) == IF cond THEN <<Part(label, value)>> ELSE <<>>

\* `(${pos.x}, ${pos.y}, ${pos.z})`
RenderPosition(pos) == <<"(", pos.x, ", ", pos.y, ", ", pos.z, ")">>

\* `${data.health}/${data.maxHealth}`
RenderHealth(health, maxHealth) == <<health, "/", maxHealth>>

\* (mutant) the player is listed before the position
FormatEventDataPlayerFirst(f) ==
  PartIf(Truthy(Field(f, "username")), "username", Field(f, "username"))
  \o PartIf(Truthy(Field(f, "position")), "position",
            RenderPosition(Field(f, "position")))
  \o PartIf(Field(f, "health") # Undef /\ Field(f, "maxHealth") # Undef,
            "health", RenderHealth(Field(f, "health"), Field(f, "maxHealth")))
  \o PartIf(Truthy(Field(f, "entityType")), "entityType", Field(f, "entityType"))
  \o PartIf(Truthy(Field(f, "blockName")), "blockName", Field(f, "blockName"))
  \o PartIf(Truthy(Field(f, "reason")), "reason", Field(f, "reason"))
  \o PartIf(Truthy(Field(f, "message")), "message", Field(f, "message"))

FormatEventData(f) ==
  PartIf(Truthy(Field(f, "position")), "position",
         RenderPosition(Field(f, "position")))
  \o PartIf(Truthy(Field(f, "username")), "username", Field(f, "username"))
  \o PartIf(Field(f, "health") # Undef /\ Field(f, "maxHealth") # Undef,
            "health", RenderHealth(Field(f, "health"), Field(f, "maxHealth")))
  \o PartIf(Truthy(Field(f, "entityType")), "entityType", Field(f, "entityType"))
  \o PartIf(Truthy(Field(f, "blockName")), "blockName", Field(f, "blockName"))
  \o PartIf(Truthy(Field(f, "reason")), "reason", Field(f, "reason"))
  \o PartIf(Truthy(Field(f, "message")), "message", Field(f, "message"))

SeverityEmoji(severity) ==
  CASE severity = "info" -> "i"
    [] severity = "warning" -> "!"
    [] severity = "error" -> "x"
    [] severity = "success" -> "v"
    [] OTHER -> "pin"

\* The message: the first line, and the details of the second line (none:
\* no second line).
FormatEventForAI(event) ==
  [emoji |-> SeverityEmoji(event.severity),
   description |-> event.description,
   details |-> IF event.data.defined THEN FormatEventData(event.data.f) ELSE <<>>]

\* ------------------------------------------------------------ notify
\* log(level, text) of ../logger.js: one entry in the local log sink.
LogEntry(n, level, what, message) ==
  [n |-> n, level |-> level, what |-> what, message |-> message]

\* (mutant) the severity is not looked at
ShouldNotifyKindOnly(event) == event.type \in importantEventTypes

ShouldNotify(event) ==
  \/ event.type \in importantEventTypes
  \/ event.severity = "error"
  \/ event.severity = "warning"

\* (mutant) the probes in the opposite order
FirstTransportReversed(caps) ==
  IF "prompt" \in caps THEN "prompt"
  ELSE IF "sendNotification" \in caps THEN "sendNotification"
  ELSE IF "notification" \in caps THEN "notification"
  ELSE "none"

\* sendMcpNotification, lines 109-149: the first of the three methods
\* that is a function, or "none".
FirstTransport(caps) ==
  IF "notification" \in caps THEN "notification"
  ELSE IF "sendNotification" \in caps THEN "sendNotification"
  ELSE IF "prompt" \in caps THEN "prompt"
  ELSE "none"

\* (mutant) sendMcpNotification without its catch: the error reaches the
\* catch of notify, which logs the error and not the message
FallbackLogErrorOnly(n, message) ==
  << LogEntry(n, "error", "notifyError", <<>>) >>

\* (mutant) the catch writes the message, and the retry writes it again
FallbackLogTwice(n, message) ==
  << LogEntry(n, "warn", "fallback", message),
     LogEntry(n, "info", "notice", message),
     LogEntry(n, "info", "notice", message) >>

\* sendMcpNotification's catch, lines 153-157: what it writes to the log
\* when the transport call raised.
FallbackLog(n, message) ==
  << LogEntry(n, "warn", "fallback", message),
     LogEntry(n, "info", "notice", message) >>

\* (mutant) the enabled flag is not looked at
NotifyDropsIgnoresEnabled(event) == ~ShouldNotify(event)

\* notify, lines 68-81: the two early returns.
NotifyDrops(event) == ~enabled \/ ~ShouldNotify(event)

\* A notify call: its event, where it stands, whether the transport call it
\* made raised, and (for the claims) the notifier's settings when it was
\* called.
NewNotify(event, pc, failed) ==
  [event |-> event, pc |-> pc, transportFailed |-> failed,
   at |-> [enabled |-> enabled,
           inSet |-> event.type \in importantEventTypes,
           server |-> IF enabled /\ ShouldNotify(event) THEN server
                      ELSE [set |-> FALSE, caps |-> {}]]]

NotifierInit ==
  /\ server = [set |-> FALSE, caps |-> {}]
  /\ enabled = TRUE
  /\ importantEventTypes = DefaultImportantEventTypes
  /\ notifs = <<>>
  /\ transportCalls = <<>>
  /\ logSink = <<>>
  /\ formatted = {}

SetServer(caps) ==
  /\ server' = [set |-> TRUE, caps |-> caps]
  /\ UNCHANGED <<enabled, importantEventTypes, notifs, transportCalls,
                 logSink, formatted>>
  /\ UNCHANGED <<hubVars, adapterVars, onCount, opCount>>

SetEnabled(b) ==
  /\ enabled' = b
  /\ UNCHANGED <<server, importantEventTypes, notifs, transportCalls,
                 logSink, formatted>>
  /\ UNCHANGED <<hubVars, adapterVars, onCount, opCount>>

AddImportantEventType(eventType) ==
  /\ importantEventTypes' = importantEventTypes \cup {eventType}
  /\ UNCHANGED <<server, enabled, notifs, transportCalls, logSink, formatted>>
  /\ UNCHANGED <<hubVars, adapterVars, onCount, opCount>>

RemoveImportantEventType(eventType) ==
  /\ importantEventTypes' = importantEventTypes \ {eventType}
  /\ UNCHANGED <<server, enabled, notifs, transportCalls, logSink, formatted>>
  /\ UNCHANGED <<hubVars, adapterVars, onCount, opCount>>

\* notify up to its first await.  `sync` is what the transport does when it
\* is called: "throw" (it throws at once) or "promise" (it returns a
\* promise, or a value, that the code awaits).
NotifyStep(event, sync) ==
  LET n == Len(notifs) + 1
      message == FormatEventForAI(event)
      tr == FirstTransport(server.caps)
  IN
  /\ UNCHANGED <<server, enabled, importantEventTypes>>
  /\ IF NotifyDrops(event)
     THEN /\ notifs' = Append(notifs, NewNotify(event, "resolved", FALSE))
          /\ UNCHANGED <<transportCalls, logSink, formatted>>
     ELSE /\ formatted' = formatted \cup {n}
          /\ IF ~server.set
             THEN /\ logSink' = Append(logSink, LogEntry(n, "info", "notice", message))
                  /\ notifs' = Append(notifs, NewNotify(event, "resolved", FALSE))
                  /\ UNCHANGED transportCalls
             ELSE IF tr = "none"
             THEN /\ logSink' = Append(logSink, LogEntry(n, "info", "notice", message))
                  /\ notifs' = Append(notifs, NewNotify(event, "awaitSend", FALSE))
                  /\ UNCHANGED transportCalls
             ELSE /\ transportCalls' = Append(transportCalls,
                                              [n |-> n, transport |-> tr, message |-> message])
                  /\ IF sync = "throw"
                     THEN /\ logSink' = logSink \o FallbackLog(n, message)
                          /\ notifs' = Append(notifs, NewNotify(event, "awaitSend", TRUE))
                     ELSE /\ notifs' = Append(notifs, NewNotify(event, "awaitTransport", FALSE))
                          /\ UNCHANGED logSink

Notify(event, sync) ==
  /\ NotifyStep(event, sync)
  /\ UNCHANGED <<hubVars, adapterVars, onCount, opCount>>

\* (mutant) a delivery that failed switches the notifier off
TransportSettlesDisables(n, outcome) ==
  /\ n \in DOMAIN notifs
  /\ notifs[n].pc = "awaitTransport"
  /\ notifs' = [notifs EXCEPT ![n].pc = "awaitSend",
                               ![n].transportFailed = (outcome = "reject")]
  /\ logSink' = IF outcome = "reject"
                THEN logSink \o FallbackLog(n, FormatEventForAI(notifs[n].event))
                ELSE logSink
  /\ enabled' = (enabled /\ outcome # "reject")
  /\ UNCHANGED <<server, importantEventTypes, transportCalls, formatted>>
  /\ UNCHANGED <<hubVars, adapterVars, onCount, opCount>>

\* The promise of the transport call settles and sendMcpNotification goes
\* on: it returns, or its catch writes the message to the log.
TransportSettles(n, outcome) ==
  /\ n \in DOMAIN notifs
  /\ notifs[n].pc = "awaitTransport"
  /\ notifs' = [notifs EXCEPT ![n].pc = "awaitSend",
                               ![n].transportFailed = (outcome = "reject")]
  /\ logSink' = IF outcome = "reject"
                THEN logSink \o FallbackLog(n, FormatEventForAI(notifs[n].event))
                ELSE logSink
  /\ UNCHANGED <<server, enabled, importantEventTypes, transportCalls, formatted>>
  /\ UNCHANGED <<hubVars, adapterVars, onCount, opCount>>

\* `await this.sendMcpNotification(...)` in notify resumes: notify returns.
NotifyReturns(n) ==
  /\ n \in DOMAIN notifs
  /\ notifs[n].pc = "awaitSend"
  /\ notifs' = [notifs EXCEPT ![n].pc = "resolved"]
  /\ UNCHANGED <<server, enabled, importantEventTypes, transportCalls,
                 logSink, formatted>>
  /\ UNCHANGED <<hubVars, adapterVars, onCount, opCount>>

\* =================================================================
\* BotEventRegistry: the adapter from bot signals to events
\* =================================================================
\* registerMovementEvents, line 375: the window, in milliseconds
MoveWindowMs == 500

\* time passes in steps of TickMs, for MaxTicks steps after the start
TickMs == 100
MaxTicks == 7
MaxSignals == 4
\* Date.now() when the handlers are registered
StartTime == 1000

\* this.bot.username, and the senders of chat signals
BotUsername == "bot"
Usernames == {"bot", "alice"}

\* One signal of the bot as the adapter handled it: `emitted` is the number
\* of the emit call the handler made (0: it made none); `threw`: the
\* handler threw, and the exception left the handler.
Signal(kind, sender, at, hasPos, emitted) ==
  [kind |-> kind, sender |-> sender, at |-> at, hasPos |-> hasPos,
   emitted |-> emitted, threw |-> FALSE]

SignalThrew(kind, at) ==
  [kind |-> kind, sender |-> BotUsername, at |-> at, hasPos |-> FALSE,
   emitted |-> 0, threw |-> TRUE]

AdapterInit ==
  /\ now = StartTime
  /\ lastMoveTime = 0
  /\ spawnHandler = TRUE
  /\ signals = <<>>

ObserverInit ==
  /\ onCount = [p \in SubKeys \X Listeners |-> 0]
  /\ opCount = [clearHistory |-> 0, removeAllListeners |-> 0]

\* Time passes between two handlers.
Tick ==
  /\ running = 0
  /\ now < StartTime + MaxTicks * TickMs
  /\ now' = now + TickMs
  /\ UNCHANGED <<lastMoveTime, spawnHandler, signals>>
  /\ UNCHANGED <<hubVars, notifierVars, onCount, opCount>>

\* bot.on('chat'), lines 90-103: createAndEmit runs up to the first await
\* inside the handler; its promise is dropped.
ChatSignal(username) ==
  /\ running = 0
  /\ Len(signals) < MaxSignals
  /\ IF username = BotUsername
     THEN /\ signals' = Append(signals, Signal("chat", username, now, FALSE, 0))
          /\ UNCHANGED hubVars
     ELSE /\ EmitCallStep("chat", "info")
          /\ signals' = Append(signals, Signal("chat", username, now, FALSE, nEmits + 1))
  /\ UNCHANGED <<now, lastMoveTime, spawnHandler>>
  /\ UNCHANGED <<notifierVars, onCount, opCount>>

\* bot.on('whisper'), lines 105-117
WhisperSignal(username) ==
  /\ running = 0
  /\ Len(signals) < MaxSignals
  /\ EmitCallStep("chat", "info")
  /\ signals' = Append(signals, Signal("whisper", username, now, FALSE, nEmits + 1))
  /\ UNCHANGED <<now, lastMoveTime, spawnHandler>>
  /\ UNCHANGED <<notifierVars, onCount, opCount>>

\* (mutant) a signal exactly 500 ms after the last one is still dropped
MovePassesStrictlyLater(t, last) == t - last > MoveWindowMs

\* line 375: `if (now - lastMoveTime < 500) return;`
MovePasses(t, last) == ~(t - last < MoveWindowMs)

\* (mutant) the position is checked before the window is started: a signal
\* without a position starts none
MoveSignalChecksPositionFirst(hasPos) ==
  /\ running = 0
  /\ Len(signals) < MaxSignals
  /\ IF ~MovePasses(now, lastMoveTime) \/ ~hasPos
     THEN /\ signals' = Append(signals, Signal("move", BotUsername, now, hasPos, 0))
          /\ UNCHANGED <<lastMoveTime, hubVars>>
     ELSE /\ lastMoveTime' = now
          /\ EmitCallStep("move", "info")
          /\ signals' = Append(signals,
                               Signal("move", BotUsername, now, hasPos, nEmits + 1))
  /\ UNCHANGED <<now, spawnHandler>>
  /\ UNCHANGED <<notifierVars, onCount, opCount>>

\* bot.on('move'), lines 372-396.  hasPos: this.bot.entity?.position is set.
\* lastPosition is written and never read.
MoveSignal(hasPos) ==
  /\ running = 0
  /\ Len(signals) < MaxSignals
  /\ IF ~MovePasses(now, lastMoveTime)
     THEN /\ signals' = Append(signals, Signal("move", BotUsername, now, hasPos, 0))
          /\ UNCHANGED <<lastMoveTime, hubVars>>
     ELSE /\ lastMoveTime' = now
          /\ IF ~hasPos
             THEN /\ signals' = Append(signals, Signal("move", BotUsername, now, hasPos, 0))
                  /\ UNCHANGED hubVars
             ELSE /\ EmitCallStep("move", "info")
                  /\ signals' = Append(signals,
                                       Signal("move", BotUsername, now, hasPos, nEmits + 1))
  /\ UNCHANGED <<now, spawnHandler>>
  /\ UNCHANGED <<notifierVars, onCount, opCount>>

\* bot.on('entityHurt'), lines 124-141.  hasEntity: the signal carries an
\* entity.  The template string reads `entity.name` while the arguments of
\* createAndEmit are evaluated: with no entity that read throws a TypeError
\* before createAndEmit is called, and nothing in the handler catches it.
EntityHurtSignal(hasEntity) ==
  /\ running = 0
  /\ Len(signals) < MaxSignals
  /\ IF ~hasEntity
     THEN /\ signals' = Append(signals, SignalThrew("entityHurt", now))
          /\ UNCHANGED hubVars
     ELSE /\ EmitCallStep("entity_hurt", "info")
          /\ signals' = Append(signals,
                               Signal("entityHurt", BotUsername, now, FALSE, nEmits + 1))
  /\ UNCHANGED <<now, lastMoveTime, spawnHandler>>
  /\ UNCHANGED <<notifierVars, onCount, opCount>>

\* the last stage of breaking a block, line 218
LastDestroyStage == 9
DestroyStages == {8, 9}

\* bot.on('blockBreakProgressObserved'), lines 217-234.  hasBlock: the
\* signal carries a block.  Below stage 9 the handler reads nothing of the
\* block; at stage 9 `block.name` throws when there is no block.
BlockBreakSignal(hasBlock, destroyStage) ==
  /\ running = 0
  /\ Len(signals) < MaxSignals
  /\ IF destroyStage # LastDestroyStage
     THEN /\ signals' = Append(signals,
                               Signal("blockBreakProgressObserved", BotUsername, now, FALSE, 0))
          /\ UNCHANGED hubVars
     ELSE IF ~hasBlock
     THEN /\ signals' = Append(signals, SignalThrew("blockBreakProgressObserved", now))
          /\ UNCHANGED hubVars
     ELSE /\ EmitCallStep("block_break", "info")
          /\ signals' = Append(signals,
                               Signal("blockBreakProgressObserved", BotUsername, now,
                                      FALSE, nEmits + 1))
  /\ UNCHANGED <<now, lastMoveTime, spawnHandler>>
  /\ UNCHANGED <<notifierVars, onCount, opCount>>

\* (mutant) the spawn handler is registered with bot.on: it stays
SpawnHandlerStays(registered) == registered

\* line 35, bot.once: the handler is removed when the signal it handles is
\* raised, before it runs.
SpawnHandlerAfter(registered) == FALSE

\* bot.once('spawn'), lines 35-49.  `this.bot.entity?.position` never
\* throws: hasPos only chooses the payload.
SpawnSignal(hasPos) ==
  /\ running = 0
  /\ Len(signals) < MaxSignals
  /\ spawnHandler' = SpawnHandlerAfter(spawnHandler)
  /\ IF ~spawnHandler
     THEN /\ signals' = Append(signals, Signal("spawn", BotUsername, now, hasPos, 0))
          /\ UNCHANGED hubVars
     ELSE /\ EmitCallStep("spawn", "success")
          /\ signals' = Append(signals,
                               Signal("spawn", BotUsername, now, hasPos, nEmits + 1))
  /\ UNCHANGED <<now, lastMoveTime>>
  /\ UNCHANGED <<notifierVars, onCount, opCount>>

\* bot.on('login'), lines 51-60
LoginSignal ==
  /\ running = 0
  /\ Len(signals) < MaxSignals
  /\ EmitCallStep("login", "info")
  /\ signals' = Append(signals, Signal("login", BotUsername, now, FALSE, nEmits + 1))
  /\ UNCHANGED <<now, lastMoveTime, spawnHandler>>
  /\ UNCHANGED <<notifierVars, onCount, opCount>>

\* bot.on('kicked'), lines 62-72.  formatError (lines 443-452) returns a
\* string for every reason: its JSON.stringify is inside a try.
KickedSignal ==
  /\ running = 0
  /\ Len(signals) < MaxSignals
  /\ EmitCallStep("kicked", "error")
  /\ signals' = Append(signals, Signal("kicked", BotUsername, now, FALSE, nEmits + 1))
  /\ UNCHANGED <<now, lastMoveTime, spawnHandler>>
  /\ UNCHANGED <<notifierVars, onCount, opCount>>

\* bot.on('end'), lines 74-83
EndSignal ==
  /\ running = 0
  /\ Len(signals) < MaxSignals
  /\ EmitCallStep("end", "warning")
  /\ signals' = Append(signals, Signal("end", BotUsername, now, FALSE, nEmits + 1))
  /\ UNCHANGED <<now, lastMoveTime, spawnHandler>>
  /\ UNCHANGED <<notifierVars, onCount, opCount>>

\* on / off called outside any emission, with the calls counted
IdleHub == running = 0 /\ \A t \in DOMAIN tasks : tasks[t].pc \in {"done", "filtered", "rejected"}

MaxOnCount == 2

OnCounted(key, l) ==
  /\ IdleHub
  /\ OnStep(key, l)
  /\ onCount' = [onCount EXCEPT ![<<key, l>>] = IF @ < MaxOnCount THEN @ + 1 ELSE @]
  /\ UNCHANGED <<notifierVars, adapterVars, opCount>>

OffCounted(key, l) ==
  /\ IdleHub
  /\ OffStep(key, l)
  /\ onCount' = [onCount EXCEPT ![<<key, l>>] = 0]
  /\ UNCHANGED <<notifierVars, adapterVars, opCount>>

\* clearHistory / removeAllListeners with the calls counted
MaxOps == 1

ClearHistoryCounted ==
  /\ opCount.clearHistory < MaxOps
  /\ ClearHistoryStep
  /\ opCount' = [opCount EXCEPT !.clearHistory = @ + 1]
  /\ UNCHANGED <<notifierVars, adapterVars, onCount>>

RemoveAllListenersCounted ==
  /\ opCount.removeAllListeners < MaxOps
  /\ RemoveAllListenersStep
  /\ opCount' = [opCount EXCEPT !.removeAllListeners = @ + 1]
  /\ UNCHANGED <<notifierVars, adapterVars, onCount>>

\* =================================================================
\* main: the notifier wired to the hub
\* =================================================================
\* the listener of main.ts, lines 61-63: (event) => { eventNotifier.notify(event); }
NotifierListener == "notifier"

\* The event as the notifier gets it from the hub.
WiredEvent(e) ==
  [id |-> e.id, type |-> e.type, severity |-> e.severity,
   description |-> <<"about", e.type>>, data |-> Payloads[2]]

\* main.ts, lines 58-63: setServer(server), then on('*', listener).  What
\* the host object exposes is not fixed by this repository.
MainWiring(caps) ==
  /\ running = 0
  /\ ~Has(globalListeners, NotifierListener)
  /\ OnStep(Wildcard, NotifierListener)
  /\ server' = [set |-> TRUE, caps |-> caps]
  /\ UNCHANGED <<enabled, importantEventTypes, notifs, transportCalls,
                 logSink, formatted>>
  /\ UNCHANGED <<adapterVars, onCount, opCount>>

\* The listener that emit invokes next, as Advance chooses it.
NextListener(task) ==
  IF task.pc = "type" /\ task.idx < Len(TypeSetOf(task))
  THEN TypeSetOf(task)[task.idx + 1]
  ELSE LET g == IF task.pc = "type" THEN 0 ELSE task.idx IN
       IF g < Len(globalListeners) THEN globalListeners[g + 1] ELSE "none"

\* One more step of emit.  When the listener it invokes is the notifier's,
\* notify runs up to its first await inside the invocation, and the
\* listener returns undefined: the promise of notify is dropped.
WiredAdvance(step, t, task, out, sync) ==
  IF NextListener(task) = NotifierListener
  THEN /\ out = "return"
       /\ step
       /\ NotifyStep(WiredEvent(task.event), sync)
  ELSE /\ sync = "promise"
       /\ step
       /\ UNCHANGED notifierVars

WiredContinue(t, out, sync) ==
  /\ t \in DOMAIN tasks
  /\ WiredAdvance(ContinueStep(t, NoEffect, out), t, tasks[t], out, sync)
  /\ UNCHANGED <<adapterVars, onCount, opCount>>

WiredResume(t, out, sync) ==
  /\ t \in DOMAIN tasks
  /\ WiredAdvance(ResumeStep(t, NoEffect, out), t, tasks[t], out, sync)
  /\ UNCHANGED <<adapterVars, onCount, opCount>>

\* ------------------------------------------------------- specifications
\* The history: emits (which may overlap while a wildcard listener is
\* awaited), clearHistory and setMaxHistorySize, with and without filters.
HistoryNext ==
  \/ \E l \in Listeners : On(Wildcard, l)
  \/ AddFilter("noChat")
  \/ RemoveFilter("noChat")
  \/ ClearHistory
  \/ \E size \in 0..MaxCap : SetMaxHistorySize(size)
  \/ \E type \in Kinds : nEmits < MaxEmits /\ EmitCall(type, "info")
  \/ \E t \in 1..MaxEmits, out \in Outcomes : Continue(t, NoEffect, out)
  \/ \E t \in 1..MaxEmits, out \in Outcomes : Resume(t, NoEffect, out)

\* The state after `new EventManager()`, `new EventNotifier()` and
\* registerAllEvents().
Init ==
  HubInit /\ NotifierInit /\ AdapterInit /\ ObserverInit

SpecHistory ==
  Init /\ [][HistoryNext]_vars

\* The history under a capacity that is set once, before the first emit,
\* and never changed; the history is never cleared.
FixedCapInit ==
  /\ listeners = EmptyMap
  /\ globalListeners = <<>>
  /\ filters = <<>>
  /\ eventHistory = <<>>
  /\ maxHistorySize \in 0..MaxCap
  /\ nEmits = 0
  /\ tasks = <<>>
  /\ running = 0
  /\ calls = <<>>
  /\ atEmit = <<>>

FixedCapNext ==
  \/ \E l \in Listeners : On(Wildcard, l)
  \/ AddFilter("noChat")
  \/ RemoveFilter("noChat")
  \/ \E type \in Kinds : nEmits < MaxEmits /\ EmitCall(type, "info")
  \/ \E t \in 1..MaxEmits, out \in Outcomes : Continue(t, NoEffect, out)
  \/ \E t \in 1..MaxEmits, out \in Outcomes : Resume(t, NoEffect, out)

InitFixedCap ==
  FixedCapInit /\ NotifierInit /\ AdapterInit /\ ObserverInit

SpecFixedCap ==
  InitFixedCap /\ [][FixedCapNext]_vars

\* The filter chain: filters are added and removed, listeners subscribe
\* under a kind and under the wildcard, one event is emitted.
FilterNext ==
  \/ \E key \in SubKeys : On(key, "L1")
  \/ \E f \in Filters : AddFilter(f)
  \/ \E f \in Filters : RemoveFilter(f)
  \/ \E type \in Kinds, severity \in Severities :
       nEmits < MaxOverlap /\ EmitCall(type, severity)
  \/ \E t \in 1..MaxOverlap, out \in Outcomes : Continue(t, NoEffect, out)
  \/ \E t \in 1..MaxOverlap, out \in Outcomes : Resume(t, NoEffect, out)

SpecFilter ==
  Init /\ [][FilterNext]_vars

\* The fan-out of one emission: subscriptions change at any time, also
\* from inside a listener.
FanoutNext ==
  \/ \E key \in SubKeys, l \in Listeners : On(key, l)
  \/ \E key \in SubKeys, l \in Listeners : Off(key, l)
  \/ RemoveAllListeners
  \/ \E type \in Kinds : nEmits < MaxFanout /\ EmitCall(type, "info")
  \/ \E t \in 1..MaxFanout, eff \in ReentrantEffects, out \in Outcomes :
       Continue(t, eff, out)
  \/ \E t \in 1..MaxFanout, eff \in ReentrantEffects, out \in Outcomes :
       Resume(t, eff, out)

SpecFanout ==
  Init /\ [][FanoutNext]_vars

\* Overlapping emissions: a second emit is called while the first one is
\* suspended at an await, as the adapter does by not awaiting createAndEmit.
OverlapNext ==
  \/ \E key \in SubKeys, l \in Listeners : On(key, l)
  \/ \E type \in Kinds : nEmits < MaxOverlap /\ EmitCall(type, "info")
  \/ \E t \in 1..MaxOverlap, out \in Outcomes : Continue(t, NoEffect, out)
  \/ \E t \in 1..MaxOverlap, out \in Outcomes : Resume(t, NoEffect, out)

SpecOverlap ==
  Init /\ [][OverlapNext]_vars

\* The notifier on its own: its settings change at any time, notify calls
\* overlap while a transport call is awaited.
NotifierNext ==
  \/ \E caps \in SUBSET Transports : SetServer(caps)
  \/ \E b \in BOOLEAN : SetEnabled(b)
  \/ \E k \in Kinds : AddImportantEventType(k)
  \/ \E k \in Kinds : RemoveImportantEventType(k)
  \/ \E type \in Kinds, severity \in NotifierSeverities,
        p \in NotifierPayloads, sync \in {"throw", "promise"} :
       Len(notifs) < MaxNotify /\ Notify(NotifierEvent(type, severity, p), sync)
  \/ \E n \in 1..MaxNotify, outcome \in {"fulfil", "reject"} : TransportSettles(n, outcome)
  \/ \E n \in 1..MaxNotify : NotifyReturns(n)

SpecNotifier ==
  Init /\ [][NotifierNext]_vars

\* The chat handlers: chat and whisper signals from the bot itself and from
\* another player, with a listener subscribed.
ChatNext ==
  \/ \E key \in SubKeys : On(key, "L1")
  \/ \E username \in Usernames : ChatSignal(username)
  \/ \E username \in Usernames : WhisperSignal(username)
  \/ \E t \in 1..MaxSignals, out \in Outcomes : Continue(t, NoEffect, out)
  \/ \E t \in 1..MaxSignals, out \in Outcomes : Resume(t, NoEffect, out)

SpecChat ==
  Init /\ [][ChatNext]_vars

\* The move handler: move signals at any time, with and without a known
\* position; nothing is subscribed.
MoveNext ==
  \/ Tick
  \/ \E hasPos \in BOOLEAN : MoveSignal(hasPos)
  \/ \E t \in 1..MaxSignals : Continue(t, NoEffect, "return")

SpecMove ==
  Init /\ [][MoveNext]_vars

\* Subscriptions: on and off are called any number of times between
\* emissions, never while one is in progress.
SubscribeNext ==
  \/ \E key \in SubKeys, l \in Listeners : OnCounted(key, l)
  \/ \E key \in SubKeys, l \in Listeners : OffCounted(key, l)
  \/ \E type \in Kinds : nEmits < MaxOverlap /\ EmitCall(type, "info")
  \/ \E t \in 1..MaxOverlap, out \in Outcomes : Continue(t, NoEffect, out)
  \/ \E t \in 1..MaxOverlap, out \in Outcomes : Resume(t, NoEffect, out)

SpecSubscribe ==
  Init /\ [][SubscribeNext]_vars

\* The message format: one notify call for an event with any of the
\* payloads, with the host set or not.
FormatNext ==
  \/ \E caps \in {{}, {"notification"}} : SetServer(caps)
  \/ \E b \in BOOLEAN : SetEnabled(b)
  \/ \E k \in Kinds : RemoveImportantEventType(k)
  \/ \E type \in Kinds, severity \in NotifierSeverities,
        p \in DOMAIN Payloads, sync \in {"throw", "promise"} :
       Len(notifs) < MaxNotify /\ Notify(NotifierEvent(type, severity, p), sync)
  \/ \E n \in 1..MaxNotify, outcome \in {"fulfil", "reject"} : TransportSettles(n, outcome)
  \/ \E n \in 1..MaxNotify : NotifyReturns(n)

SpecFormat ==
  Init /\ [][FormatNext]_vars

\* Reentrant listeners: the subscriptions are made before the emission;
\* during the fan-out only the invoked listeners call on and off.
ReentrantNext ==
  \/ \E key \in SubKeys, l \in Listeners : nEmits = 0 /\ On(key, l)
  \/ \E type \in Kinds : nEmits < MaxFanout /\ EmitCall(type, "info")
  \/ \E t \in 1..MaxFanout, eff \in ReentrantEffects, out \in Outcomes :
       Continue(t, eff, out)
  \/ \E t \in 1..MaxFanout, eff \in ReentrantEffects, out \in Outcomes :
       Resume(t, eff, out)

SpecReentrant ==
  Init /\ [][ReentrantNext]_vars

\* The order of one emission's steps, under a capacity that is set before
\* the first emit: listeners under a kind and under the wildcard, two
\* emissions that may overlap.
OrderNext ==
  \/ \E key \in SubKeys, l \in Listeners : On(key, l)
  \/ \E type \in Kinds : nEmits < MaxOverlap /\ EmitCall(type, "info")
  \/ \E t \in 1..MaxOverlap, out \in Outcomes : Continue(t, NoEffect, out)
  \/ \E t \in 1..MaxOverlap, out \in Outcomes : Resume(t, NoEffect, out)

SpecOrder ==
  InitFixedCap /\ [][OrderNext]_vars

\* The pipeline as main wires it: the notifier's listener under the
\* wildcard, another listener under a kind, and emissions.
WiredNext ==
  \/ \E caps \in SUBSET Transports : MainWiring(caps)
  \/ On("chat", "L1")
  \/ \E type \in Kinds, severity \in Severities :
       nEmits < MaxOverlap /\ EmitCall(type, severity)
  \/ \E t \in 1..MaxOverlap, out \in Outcomes, sync \in {"throw", "promise"} :
       WiredContinue(t, out, sync)
  \/ \E t \in 1..MaxOverlap, out \in Outcomes, sync \in {"throw", "promise"} :
       WiredResume(t, out, sync)
  \/ \E n \in 1..MaxOverlap, outcome \in {"fulfil", "reject"} : TransportSettles(n, outcome)
  \/ \E n \in 1..MaxOverlap : NotifyReturns(n)

SpecWired ==
  Init /\ [][WiredNext]_vars

\* Repeated notify calls for the same important event, through any host,
\* with transports that fail or not.
MaxRepeat == 2

RepeatNext ==
  \/ \E caps \in SUBSET Transports : SetServer(caps)
  \/ \E sync \in {"throw", "promise"} :
       Len(notifs) < MaxRepeat /\ Notify(NotifierEvent("chat", "info", 2), sync)
  \/ \E n \in 1..MaxRepeat, outcome \in {"fulfil", "reject"} : TransportSettles(n, outcome)
  \/ \E n \in 1..MaxRepeat : NotifyReturns(n)

SpecRepeat ==
  Init /\ [][RepeatNext]_vars

\* The entity and block handlers: signals with and without the entity or
\* block they are about, with a wildcard listener subscribed or not.
EntityNext ==
  \/ On(Wildcard, "L1")
  \/ \E hasEntity \in BOOLEAN : EntityHurtSignal(hasEntity)
  \/ \E hasBlock \in BOOLEAN, destroyStage \in DestroyStages :
       BlockBreakSignal(hasBlock, destroyStage)
  \/ \E t \in 1..MaxSignals, out \in Outcomes : Continue(t, NoEffect, out)
  \/ \E t \in 1..MaxSignals, out \in Outcomes : Resume(t, NoEffect, out)

SpecEntity ==
  Init /\ [][EntityNext]_vars

\* The connection handlers: spawn, login, kicked and end signals in any
\* order and number, with a wildcard listener subscribed or not.
ConnectionNext ==
  \/ On(Wildcard, "L1")
  \/ \E hasPos \in BOOLEAN : SpawnSignal(hasPos)
  \/ LoginSignal
  \/ KickedSignal
  \/ EndSignal
  \/ \E t \in 1..MaxSignals, out \in Outcomes : Continue(t, NoEffect, out)
  \/ \E t \in 1..MaxSignals, out \in Outcomes : Resume(t, NoEffect, out)

SpecConnection ==
  Init /\ [][ConnectionNext]_vars

\* clearHistory and removeAllListeners among subscriptions, filters,
\* emissions and a lowered capacity, also while an emission is suspended;
\* the listeners return.
FrameNext ==
  \/ \E key \in SubKeys : On(key, "L1")
  \/ AddFilter("noChat")
  \/ SetMaxHistorySize(MaxCap)
  \/ ClearHistoryCounted
  \/ RemoveAllListenersCounted
  \/ \E type \in Kinds : nEmits < MaxEmits /\ EmitCall(type, "info")
  \/ \E t \in 1..MaxEmits : Continue(t, NoEffect, "return")
  \/ \E t \in 1..MaxEmits : Resume(t, NoEffect, "return")

SpecFrame ==
  Init /\ [][FrameNext]_vars

\* =================================================================
\* Claims
\* =================================================================
Min(a, b) == IF a < b THEN a ELSE b
LastN(s, n) == SubSeq(s, Len(s) - n + 1, Len(s))
Accepted(task) == task.pc \notin {"filtered", "rejected"}

\* The events of the emit calls that passed the filters, in call order.
AcceptedEvents ==
  LET acc == SelectSeq(tasks, Accepted) IN [i \in 1..Len(acc) |-> acc[i].event]

\* How often listener l was invoked under `key` for the t-th emit call.
CallCount(cs, t, l, key) ==
  Cardinality({i \in 1..Len(cs) : cs[i] = Call(t, l, key)})

Called(cs, t, l, key) == \E i \in 1..Len(cs) : cs[i] = Call(t, l, key)

\* C1 (history bound): under a capacity C that is set before the first emit
\* and never changed, after N accepted emit calls getHistory(undefined, N)
\* returns exactly min(N, C) events: the min(N, C) most recently emitted
\* ones, in emission order.
C1_HistoryBound ==
  LET acc == AcceptedEvents
      N == Len(acc)
      got == GetHistory(Undefined, N)
  IN /\ Len(got) = Min(N, maxHistorySize)
     /\ got = LastN(acc, Min(N, maxHistorySize))

\* C1 witness: more events were accepted than the capacity holds, so the
\* oldest ones were evicted.
C1_Witness ==
  /\ maxHistorySize = 2
  /\ Len(AcceptedEvents) = 3
  /\ running = 0
  /\ Len(GetHistory(Undefined, 3)) = 2
  /\ GetHistory(Undefined, 3)[1].id = AcceptedEvents[2].id

\* C2 (as claimed): the history is never longer than the current capacity,
\* also after setMaxHistorySize lowered the capacity.
C2_LengthAtMostCapacity == Len(eventHistory) <= maxHistorySize

\* C3 precondition: some registered filter returns false for e, that is,
\* the filters before it in the chain returned true.
SomeFilterReturnsFalse(fs, e) ==
  \E i \in 1..Len(fs) :
    /\ FilterResult(fs[i], e) = "false"
    /\ \A j \in 1..(i - 1) : FilterResult(fs[j], e) = "true"

C3_RejectedEmitStep ==
  (nEmits' = nEmits + 1 /\ SomeFilterReturnsFalse(filters, tasks'[nEmits'].event))
    => /\ tasks'[nEmits'].pc = "filtered"
       /\ UNCHANGED <<eventHistory, listeners, globalListeners, filters, calls>>

C3_RejectedStaysOut ==
  \A t \in DOMAIN tasks :
    tasks[t].pc = "filtered" =>
      /\ \A i \in 1..Len(calls) : calls[i].ev # t
      /\ \A kind \in Kinds \cup {Undefined}, limit \in 0..MaxOverlap :
           LET got == GetHistory(kind, limit) IN
           \A i \in 1..Len(got) : got[i].id # t

\* C3 (filter short-circuit): an emit call for which a registered filter
\* returns false leaves the history, the listener sets and the filter set
\* unchanged and invokes no listener, and its event is in no later
\* getHistory result and is never delivered to a listener.
C3_FilterShortCircuit == [][C3_RejectedEmitStep]_vars /\ []C3_RejectedStaysOut

\* C3 witness: a chat event was rejected by a filter while a chat listener
\* and a wildcard listener were subscribed, and a later event was accepted
\* and delivered.
C3_Witness ==
  /\ Len(tasks) = 2
  /\ tasks[1].pc = "filtered"
  /\ atEmit[1].type # {} /\ atEmit[1].wild # {}
  /\ tasks[2].pc = "done"
  /\ \E i \in 1..Len(calls) : calls[i].ev = 2

\* C4 (as claimed): once the emit of an accepted event has returned, every
\* wildcard listener that was subscribed when emit was called has been
\* invoked for the event exactly once.
C4_WildcardExactlyOnce ==
  \A t \in DOMAIN tasks :
    tasks[t].pc = "done" =>
      \A l \in atEmit[t].wild : CallCount(calls, t, l, Wildcard) = 1

\* C5: for the t-th emit, once one of its listener invocations has failed:
\* when the emit leaves the loop over the kind's listeners, every member of
\* that set has been invoked for the event; when it returns, every member
\* of the wildcard set has been invoked for the event; and its promise is
\* not rejected.
C5_AfterFailure(t) ==
  tasks'[t].failedAt > 0 =>
    /\ (tasks[t].pc = "type" /\ tasks'[t].pc # "type") =>
         \A l \in Members(TypeSetOf(tasks[t])) :
           Called(calls', t, l, tasks[t].event.type)
    /\ (tasks[t].pc # "done" /\ tasks'[t].pc = "done") =>
         \A l \in Members(globalListeners') : Called(calls', t, l, Wildcard)
    /\ tasks'[t].pc # "rejected"

\* C5 (listener isolation): a listener that throws, or whose promise
\* rejects, during the fan-out of an event does not end the fan-out: the
\* remaining kind-specific listeners and the wildcard listeners are still
\* invoked with the event, and emit returns normally.
C5_ListenerIsolation ==
  [][\A t \in DOMAIN tasks : C5_AfterFailure(t)]_vars

\* C5 witness: an emit has returned, one of its listeners failed, and a
\* different listener was invoked for the same event after the failure.
C5_Witness ==
  \E t \in DOMAIN tasks :
    /\ tasks[t].pc = "done"
    /\ tasks[t].failedAt > 0
    /\ \E j \in 1..Len(calls) :
         /\ j > tasks[t].failedAt
         /\ calls[j].ev = t
         /\ calls[j].l # calls[tasks[t].failedAt].l

\* C6 (as claimed): the listener callbacks of two events never interleave:
\* every callback for an earlier emit call runs before any callback for a
\* later one.
C6_NoInterleaving ==
  \A i, j \in 1..Len(calls) : i < j => calls[i].ev <= calls[j].ev

\* ------------------------------------------------------ the notifier
\* The transport calls made for the n-th notify call, in order.
TransportCallsOf(n) == SelectSeq(transportCalls, LAMBDA c : c.n = n)
LogEntriesOf(n) == SelectSeq(logSink, LAMBDA c : c.n = n)

\* The formatted message of the n-th notify call is in the log sink.
MessageLogged(n) ==
  \E i \in 1..Len(logSink) :
    logSink[i] = LogEntry(n, "info", "notice", FormatEventForAI(notifs[n].event))

\* Delivery was attempted for the n-th notify call: a transport was called
\* or the message was written to the log sink.
Attempted(n) == TransportCallsOf(n) # <<>> \/ MessageLogged(n)

Important(c) == c.at.inSet \/ c.event.severity \in {"error", "warning"}

\* C7 (importance gate): delivery is attempted for an event iff the
\* notifier is enabled and the event's kind is in the importance set or its
\* severity is error or warning, with the flag and the set taken when
\* notify is called.
C7_ImportanceGate ==
  \A n \in DOMAIN notifs :
    Attempted(n) <=> (notifs[n].at.enabled /\ Important(notifs[n]))

\* C7 witness: an error event of kind chat is delivered although chat was
\* removed from the importance set before the call.
C7_Witness ==
  \E n \in DOMAIN notifs :
    /\ notifs[n].event.type = "chat"
    /\ notifs[n].event.severity = "error"
    /\ ~notifs[n].at.inSet
    /\ notifs[n].at.enabled
    /\ Attempted(n)

\* C8 (disabled notifier): a notify call made while the notifier is
\* disabled calls no transport, writes nothing to the log sink and does not
\* format the event; it returns at once.
C8_DisabledIsNoOp ==
  \A n \in DOMAIN notifs :
    ~notifs[n].at.enabled =>
      /\ TransportCallsOf(n) = <<>>
      /\ LogEntriesOf(n) = <<>>
      /\ n \notin formatted
      /\ notifs[n].pc = "resolved"

\* C8 witness: an error event of a kind in the importance set was passed
\* to the disabled notifier.
C8_Witness ==
  \E n \in DOMAIN notifs :
    /\ ~notifs[n].at.enabled
    /\ notifs[n].at.inSet
    /\ notifs[n].event.severity = "error"

Rank(transport) ==
  CASE transport = "notification" -> 1
    [] transport = "sendNotification" -> 2
    [] transport = "prompt" -> 3

\* C9 (transport order): for an important event, when the host is set and
\* exposes at least one transport, exactly one transport is called: the
\* available one that ranks first in notification, sendNotification,
\* prompt, with the formatted message; when no host is set or it exposes
\* none, no transport is called and the formatted message is logged.
C9_FirstAvailableTransport ==
  \A n \in DOMAIN notifs :
    LET c == notifs[n]
        tc == TransportCallsOf(n)
    IN (c.at.enabled /\ Important(c)) =>
         IF c.at.server.set /\ c.at.server.caps # {}
         THEN /\ Len(tc) = 1
              /\ tc[1].transport \in c.at.server.caps
              /\ \A other \in c.at.server.caps : Rank(tc[1].transport) <= Rank(other)
              /\ tc[1].message = FormatEventForAI(c.event)
         ELSE /\ tc = <<>>
              /\ MessageLogged(n)

\* C9 witness: the host exposes sendNotification and prompt but not
\* notification; sendNotification was called and prompt was not.
C9_Witness ==
  \E n \in DOMAIN notifs :
    /\ notifs[n].at.server.set
    /\ notifs[n].at.server.caps = {"sendNotification", "prompt"}
    /\ Len(TransportCallsOf(n)) = 1
    /\ TransportCallsOf(n)[1].transport = "sendNotification"
    /\ notifs[n].pc = "resolved"

\* C10 (notify never raises): the promise of a notify call is never
\* rejected, and when the transport call it made threw or rejected, the
\* formatted message is in the log sink.
C10_NotifyNeverRaises ==
  \A n \in DOMAIN notifs :
    /\ notifs[n].pc \in {"awaitTransport", "awaitSend", "resolved"}
    /\ notifs[n].transportFailed =>
         /\ MessageLogged(n)
         /\ notifs[n].pc \in {"awaitSend", "resolved"}

\* C10 witness: the transport's promise rejected, the message was logged
\* and notify has returned.
C10_Witness ==
  \E n \in DOMAIN notifs :
    /\ notifs[n].transportFailed
    /\ TransportCallsOf(n) # <<>>
    /\ notifs[n].pc = "resolved"
    /\ MessageLogged(n)

\* ------------------------------------------------------ the adapter
\* C11 (as claimed): a chat or whisper signal whose sender is the bot's own
\* username makes the adapter emit nothing: its handler makes no emit call,
\* so nothing is appended to the history and no listener is invoked for it.
C11_SelfMessageSuppressed ==
  \A i \in DOMAIN signals :
    (signals[i].kind \in {"chat", "whisper"} /\ signals[i].sender = BotUsername)
      => signals[i].emitted = 0

Max(S) == CHOOSE x \in S : \A y \in S : y <= x

Moves == SelectSeq(signals, LAMBDA g : g.kind = "move")

\* C12 (movement coalescing): while the position is known at every move
\* signal, a move signal makes the adapter emit a move event iff no earlier
\* move signal did, or it comes at least 500 ms after the last one that
\* did; the other move signals are dropped: no emit call is ever made for
\* them.
C12_MoveCoalescing ==
  LET mv == Moves IN
  /\ \A i \in 1..Len(mv) :
       (\A j \in 1..i : mv[j].hasPos) =>
         LET prev == {j \in 1..(i - 1) : mv[j].emitted # 0} IN
         (mv[i].emitted # 0) <=>
           (prev = {} \/ mv[i].at - mv[Max(prev)].at >= 500)
  /\ nEmits = Cardinality({i \in DOMAIN signals : signals[i].emitted # 0})
  /\ \A i \in DOMAIN signals :
       signals[i].emitted # 0 =>
         /\ signals[i].emitted \in DOMAIN tasks
         /\ tasks[signals[i].emitted].event.type = signals[i].kind

\* C12 witness: move signals at 0, 100, 200 and 600 ms after the start; the
\* first and the fourth were emitted, the emits have returned.
C12_Witness ==
  LET mv == Moves IN
  /\ Len(mv) = 4
  /\ \A i \in 1..4 : mv[i].hasPos
  /\ mv[1].at = StartTime /\ mv[2].at = StartTime + 100
  /\ mv[3].at = StartTime + 200 /\ mv[4].at = StartTime + 600
  /\ mv[1].emitted = 1 /\ mv[2].emitted = 0 /\ mv[3].emitted = 0 /\ mv[4].emitted = 2
  /\ Len(eventHistory) = 2
  /\ \A t \in DOMAIN tasks : tasks[t].pc = "done"

\* ------------------------------------------------------ queries
\* C13 (as claimed): for every limit >= 0, limit 0 included, and every
\* optional kind, getHistory(kind, limit) returns at most `limit` events:
\* the `limit` most recent history entries of that kind, in insertion
\* order.
C13_GetHistoryLimit ==
  \A kind \in Kinds \cup {Undefined}, limit \in 0..MaxEmits :
    LET matching == IF kind = Undefined THEN eventHistory
                    ELSE SelectSeq(eventHistory, LAMBDA e : e.type = kind)
        got == GetHistory(kind, limit)
    IN /\ Len(got) <= limit
       /\ got = LastN(matching, Min(limit, Len(matching)))

\* ------------------------------------------------------ subscriptions
SetUnder(key) ==
  IF key = Wildcard THEN globalListeners
  ELSE IF key \in DOMAIN listeners THEN listeners[key] ELSE <<>>

\* C14 (idempotent subscribe): however often on(key, l) was called since
\* the last off(key, l), l is in the set of `key` once, and not at all
\* after one off(key, l); an emission that has returned has invoked each
\* listener subscribed under the event's kind once under that kind, each
\* one subscribed under the wildcard once under the wildcard, and no other.
C14_IdempotentSubscribe ==
  /\ \A key \in SubKeys, l \in Listeners :
       /\ Has(SetUnder(key), l) <=> onCount[<<key, l>>] >= 1
       /\ Cardinality({i \in 1..Len(SetUnder(key)) : SetUnder(key)[i] = l}) <= 1
  /\ \A t \in DOMAIN tasks :
       tasks[t].pc = "done" =>
         \A l \in Listeners :
           /\ CallCount(calls, t, l, tasks[t].event.type)
                = IF l \in atEmit[t].type THEN 1 ELSE 0
           /\ CallCount(calls, t, l, Wildcard)
                = IF l \in atEmit[t].wild THEN 1 ELSE 0

\* C14 witness: on('chat', L1) was called twice, a chat event was emitted
\* and its emit has returned after one invocation of L1.
C14_Witness ==
  /\ onCount[<<"chat", "L1">>] = 2
  /\ \E t \in DOMAIN tasks :
       /\ tasks[t].pc = "done"
       /\ tasks[t].event.type = "chat"
       /\ CallCount(calls, t, "L1", "chat") = 1

\* ------------------------------------------------------ the message
\* The messages sent or logged for the n-th notify call.
MessagesOf(n) ==
  {transportCalls[i].message : i \in {j \in 1..Len(transportCalls) : transportCalls[j].n = n}}
  \cup {logSink[i].message :
          i \in {j \in 1..Len(logSink) : logSink[j].n = n /\ logSink[j].what = "notice"}}

\* the recognized payload fields, in the order of the second line
FieldRank(label) ==
  CASE label = "position" -> 1
    [] label = "username" -> 2
    [] label = "health" -> 3
    [] label = "entityType" -> 4
    [] label = "blockName" -> 5
    [] label = "reason" -> 6
    [] label = "message" -> 7

RecognizedFields ==
  {"position", "username", "health", "entityType", "blockName", "reason", "message"}

\* The payload has the recognized field: the health pair needs both
\* numbers, every other field a value that is not empty.
FieldPresent(data, label) ==
  /\ data.defined
  /\ IF label = "health"
     THEN {"health", "maxHealth"} \subseteq DOMAIN data.f
     ELSE label \in DOMAIN data.f /\ Truthy(data.f[label])

\* C15 (message format): for an error event whose kind is not in the
\* importance set, passed to the enabled notifier, delivery is attempted,
\* and every message sent or logged for it has the event's description on
\* its first line and on its second line exactly the recognized payload
\* fields that are present, in the order position, username, health,
\* entity type, block name, reason, message, the position {1, 2, 3} as
\* "(1, 2, 3)"; no unrecognized field is listed, and there is no second
\* line when no recognized field is present.
C15_MessageFormat ==
  \A n \in DOMAIN notifs :
    LET c == notifs[n] IN
    (c.at.enabled /\ c.event.severity = "error" /\ ~c.at.inSet) =>
      /\ Attempted(n)
      /\ \A m \in MessagesOf(n) :
           /\ m.description = c.event.description
           /\ \A i \in 1..Len(m.details) :
                /\ m.details[i].label \in RecognizedFields
                /\ FieldPresent(c.event.data, m.details[i].label)
                /\ \A j \in 1..(i - 1) :
                     FieldRank(m.details[j].label) < FieldRank(m.details[i].label)
                /\ (m.details[i].label = "position"
                      /\ c.event.data.f.position = Pos(1, 2, 3))
                     => m.details[i].value = <<"(", 1, ", ", 2, ", ", 3, ")">>
           /\ \A label \in RecognizedFields :
                FieldPresent(c.event.data, label) =>
                  \E i \in 1..Len(m.details) : m.details[i].label = label

\* C15 witness: an error event of a kind taken out of the importance set,
\* whose payload has all seven recognized fields and an unrecognized one,
\* was sent through a transport with a second line of seven parts.
C15_Witness ==
  \E n \in DOMAIN notifs :
    /\ notifs[n].at.enabled /\ ~notifs[n].at.inSet
    /\ notifs[n].event.severity = "error"
    /\ notifs[n].event.data = Payloads[5]
    /\ Len(TransportCallsOf(n)) = 1
    /\ Len(TransportCallsOf(n)[1].message.details) = 7
    /\ TransportCallsOf(n)[1].message.details[1]
         = Part("position", <<"(", 1, ", ", 2, ", ", 3, ")">>)

\* ------------------------------------------------------ reentrancy
\* C16 (as claimed): whatever on and off calls the invoked listeners make,
\* an emission that has returned has invoked exactly the listeners that
\* were subscribed under the event's kind and under the wildcard when emit
\* was called, each of them once.
C16_ReentrantSafe ==
  \A t \in DOMAIN tasks :
    tasks[t].pc = "done" =>
      \A l \in Listeners :
        /\ CallCount(calls, t, l, tasks[t].event.type)
             = IF l \in atEmit[t].type THEN 1 ELSE 0
        /\ CallCount(calls, t, l, Wildcard)
             = IF l \in atEmit[t].wild THEN 1 ELSE 0

\* C17 (as claimed): during one emission no listener is invoked more than
\* once under one key, also when a listener calls off and then on for
\* itself under the key it is invoked for.
C17_AtMostOncePerEmission ==
  \A t \in DOMAIN tasks, l \in Listeners, key \in Kinds \cup {Wildcard} :
    CallCount(calls, t, l, key) <= 1

\* ------------------------------------------------------ order of emit
\* The event of the t-th emit call is in what getHistory() returns.
InHistory(t) ==
  \E i \in 1..Len(GetHistory(Undefined, DefaultLimit)) :
    GetHistory(Undefined, DefaultLimit)[i].id = t

\* The events accepted from the t-th emit call on, that one included.
AcceptedSince(t) ==
  Cardinality({u \in DOMAIN tasks : u >= t /\ Accepted(tasks[u])})

\* A step that invokes a listener: the invocation it adds to the log.
InvokesListener == Len(calls') = Len(calls) + 1
Invoked == calls'[Len(calls')]

\* as claimed: the invoked listener sees the event in getHistory
C18_ListenerSeesEvent ==
  InvokesListener => InHistory(Invoked.ev)

\* the invoked listener sees the event in getHistory exactly when the
\* capacity holds the events accepted since
C18_ListenerSeesEventUnlessEvicted ==
  InvokesListener =>
    (InHistory(Invoked.ev) <=> AcceptedSince(Invoked.ev) <= maxHistorySize)

\* For one event: no invocation under the kind comes after one under the
\* wildcard, and at an invocation under the wildcard every listener that
\* was subscribed under the kind when emit was called has been invoked.
C18_KindBeforeWildcard ==
  \A j \in 1..Len(calls) :
    calls[j].key = Wildcard =>
      /\ \A i \in (j + 1)..Len(calls) :
           calls[i].ev = calls[j].ev => calls[i].key = Wildcard
      /\ \A l \in atEmit[calls[j].ev].type :
           \E i \in 1..(j - 1) :
             calls[i] = Call(calls[j].ev, l, tasks[calls[j].ev].event.type)

C19_NoDeliveryInFlightAfterEmit ==
  \A t \in DOMAIN tasks :
    tasks[t].pc = "done" =>
      \A n \in DOMAIN notifs :
        notifs[n].event.id = t => notifs[n].pc # "awaitTransport"

\* ------------------------------------------------------ fallback
\* C20 (as claimed): when the transport that notify called raised and the
\* host exposes a transport later in the chain notification,
\* sendNotification, prompt, the next such transport is called before the
\* message goes to the log sink.
C20_FallsBackToNextTransport ==
  \A n \in DOMAIN notifs :
    (notifs[n].transportFailed /\ notifs[n].pc = "resolved") =>
      LET tc == TransportCallsOf(n)
          later == {tr \in notifs[n].at.server.caps : Rank(tr) > Rank(tc[1].transport)}
      IN later # {} =>
           /\ Len(tc) >= 2
           /\ tc[2].transport \in later
           /\ \A tr \in later : Rank(tc[2].transport) <= Rank(tr)

\* ------------------------------------------------------ no retries
\* How often transport tr was called for the n-th notify call.
TransportCount(tc, n, tr) ==
  Cardinality({i \in 1..Len(tc) : tc[i].n = n /\ tc[i].transport = tr})

\* How often the message of the n-th notify call was written to the log.
NoticeCount(ls, n) ==
  Cardinality({i \in 1..Len(ls) : ls[i].n = n /\ ls[i].what = "notice"})

C21_AtMostOnce ==
  \A n \in DOMAIN notifs :
    /\ \A tr \in Transports : TransportCount(transportCalls, n, tr) <= 1
    /\ NoticeCount(logSink, n) <= 1

C21_NothingAfterReturn ==
  \A n \in DOMAIN notifs :
    notifs[n].pc = "resolved" =>
      /\ \A tr \in Transports :
           TransportCount(transportCalls', n, tr) = TransportCount(transportCalls, n, tr)
      /\ NoticeCount(logSink', n) = NoticeCount(logSink, n)

\* C21 (no retries): for each notify call every transport is called at most
\* once and the message is written to the log sink at most once, and once
\* the call has returned, whether its delivery failed or not, no later
\* step, a later notify call included, calls a transport or writes the
\* message for it again.
C21_NoRetry == []C21_AtMostOnce /\ [][C21_NothingAfterReturn]_vars

\* C21 witness: the transport of the first notify call failed and the call
\* returned; a second notify call was made and returned; each made one
\* transport call.
C21_Witness ==
  /\ Len(notifs) = 2
  /\ notifs[1].transportFailed /\ notifs[1].pc = "resolved"
  /\ notifs[2].pc = "resolved"
  /\ Len(TransportCallsOf(1)) = 1 /\ Len(TransportCallsOf(2)) = 1
  /\ NoticeCount(logSink, 1) = 1

\* ------------------------------------------------------ the switch
\* A step that changes `enabled` changes nothing else of the notifier: it
\* is a setEnabled call, not a notify call (which adds to notifs), a
\* transport settling or notify returning (which change notifs), setServer
\* or a change of the importance set.
C22_OnlySetEnabledStep ==
  enabled' # enabled =>
    UNCHANGED <<server, importantEventTypes, notifs, transportCalls,
                logSink, formatted>>

\* C22 (the switch): the notifier starts enabled, and only a setEnabled
\* call changes the flag: notify, whether it delivers, fails or skips,
\* setServer, addImportantEventType and removeImportantEventType leave it
\* as it is.
C22_EnabledOnlyBySetEnabled ==
  enabled = TRUE /\ [][C22_OnlySetEnabledStep]_vars

\* C22 witness: the host was set, the importance set was changed, a notify
\* call was made whose transport failed, and it has returned; the notifier
\* is enabled.
C22_Witness ==
  /\ enabled
  /\ server.set
  /\ importantEventTypes # DefaultImportantEventTypes
  /\ \E n \in DOMAIN notifs :
       notifs[n].transportFailed /\ notifs[n].pc = "resolved" /\ notifs[n].at.enabled

\* --------------------------------------------- exceptions in handlers
\* C23 (handler boundary): an exception thrown while a signal handler
\* builds its event does not leave the handler: no handled signal has an
\* exception that reached the bot, which raised the signal.
C23_ExceptionStaysInHandler ==
  \A i \in DOMAIN signals : ~signals[i].threw

\* ------------------------------------------------- connection signals
\* the events the adapter emitted for signals of one kind
EmittedFor(kind) ==
  {signals[i].emitted : i \in {j \in DOMAIN signals :
                                 signals[j].kind = kind /\ signals[j].emitted # 0}}

FirstOfKind(i) ==
  \A j \in 1..(i - 1) : signals[j].kind # signals[i].kind

\* C28 (spawn once): the first spawn signal produces a 'spawn' event and
\* every later spawn signal produces none, so there is at most one spawn
\* event; every login, kicked and end signal produces an event of its own,
\* of its kind.
C28_SpawnOnceOthersAlways ==
  /\ Cardinality({t \in DOMAIN tasks : tasks[t].event.type = "spawn"}) <= 1
  /\ \A i \in DOMAIN signals :
       /\ signals[i].kind = "spawn" =>
            /\ (signals[i].emitted # 0) = FirstOfKind(i)
            /\ signals[i].emitted # 0 => tasks[signals[i].emitted].event.type = "spawn"
       /\ signals[i].kind \in {"login", "kicked", "end"} =>
            /\ signals[i].emitted \in DOMAIN tasks
            /\ tasks[signals[i].emitted].event.type = signals[i].kind
            /\ \A j \in DOMAIN signals : j # i => signals[j].emitted # signals[i].emitted

\* C28 witness: two spawn signals, the first with an event and the second
\* without, a login signal before them and one after them, each with its
\* own event.
C28_Witness ==
  /\ Len(signals) = 4
  /\ signals[1].kind = "login" /\ signals[4].kind = "login"
  /\ signals[2].kind = "spawn" /\ signals[3].kind = "spawn"
  /\ signals[2].emitted # 0 /\ signals[3].emitted = 0
  /\ Cardinality(EmittedFor("login")) = 2
  /\ Cardinality(EmittedFor("spawn")) = 1

\* ------------------------------------------------ order of the history
\* An emit call that passes the filters appends its event in the step of
\* the call itself, whatever earlier emissions are waiting for.
C24_AppendAtCall ==
  (nEmits' # nEmits /\ Accepted(tasks'[nEmits'])) =>
    eventHistory' = Append(eventHistory, tasks'[nEmits'].event)

\* C24 (history order): with the default capacity and no clearHistory, the
\* history is the accepted events in the order of their emit calls, also
\* when a later emit is called while an earlier one is suspended awaiting a
\* listener: the append is made when emit is called.
C24_HistoryInCallOrder ==
  [](eventHistory = AcceptedEvents) /\ [][C24_AppendAtCall]_vars

\* C24 witness: the first emission is suspended awaiting a listener, the
\* second emit was called meanwhile and has finished its fan-out, and the
\* history holds both events in call order.
C24_Witness ==
  /\ Len(tasks) = 2
  /\ tasks[1].pending # "none"
  /\ tasks[2].pc = "done"
  /\ eventHistory = <<tasks[1].event, tasks[2].event>>

\* ----------------------------------------------- length of the history
\* An accepted emit call appends its event and removes at most the oldest
\* entry; the history is not shorter afterwards, and it keeps its length
\* when it was longer than the capacity.
C25_EmitStep ==
  (nEmits' # nEmits /\ Accepted(tasks'[nEmits'])) =>
    LET pushed == Append(eventHistory, tasks'[nEmits'].event) IN
      /\ eventHistory' \in {pushed, Tail(pushed)}
      /\ Len(eventHistory') >= Len(eventHistory)
      /\ Len(eventHistory) > maxHistorySize => Len(eventHistory') = Len(eventHistory)

\* A step that shortens the history is a clearHistory call: it empties the
\* history, and no emit is called in it.
C25_OnlyClearShortens ==
  Len(eventHistory') < Len(eventHistory) =>
    /\ eventHistory' = <<>>
    /\ UNCHANGED <<listeners, globalListeners, filters, maxHistorySize,
                   nEmits, tasks, running, calls>>

RECURSIVE WindowStart(_, _)
WindowStart(mv, i) ==
  IF i = 0 THEN 0
  ELSE LET w == WindowStart(mv, i - 1) IN
       IF mv[i].at - w >= 500 THEN mv[i].at ELSE w

\* C26 (window without event): a move signal outside the window that comes
\* while the position is unknown emits no event and starts a window all
\* the same: every move signal less than 500 ms after it is dropped, and
\* the handler's window start is the time of that signal.
C26_PositionlessMoveStartsWindow ==
  LET mv == Moves IN
  /\ lastMoveTime = WindowStart(mv, Len(mv))
  /\ \A i \in 1..Len(mv) :
       (mv[i].at - WindowStart(mv, i - 1) >= 500 /\ ~mv[i].hasPos) =>
         /\ mv[i].emitted = 0
         /\ \A j \in (i + 1)..Len(mv) :
              mv[j].at - mv[i].at < 500 => mv[j].emitted = 0

\* C26 witness: the first move signal comes without a position; a signal
\* with a position 100 ms later is dropped, one 500 ms later is emitted.
C26_Witness ==
  LET mv == Moves IN
  /\ Len(mv) = 3
  /\ mv[1].at = StartTime /\ ~mv[1].hasPos /\ mv[1].emitted = 0
  /\ mv[2].at = StartTime + 100 /\ mv[2].hasPos /\ mv[2].emitted = 0
  /\ mv[3].at = StartTime + 500 /\ mv[3].hasPos /\ mv[3].emitted # 0

\* --------------------------------------------------- a filter throws
\* The filter chain throws on event e: some filter throws and every filter
\* before it returned true.
SomeFilterThrows(fs, e) ==
  \E i \in 1..Len(fs) :
    /\ FilterResult(fs[i], e) = "throw"
    /\ \A j \in 1..(i - 1) : FilterResult(fs[j], e) = "true"

C27_ThrowingEmitStep ==
  (nEmits' = nEmits + 1 /\ SomeFilterThrows(filters, tasks'[nEmits'].event))
    => /\ tasks'[nEmits'].pc = "rejected"
       /\ UNCHANGED <<eventHistory, listeners, globalListeners, filters, calls>>

C27_ThrownStaysOut ==
  \A t \in DOMAIN tasks :
    tasks[t].pc = "rejected" =>
      /\ \A i \in 1..Len(calls) : calls[i].ev # t
      /\ \A i \in 1..Len(eventHistory) : eventHistory[i].id # t

\* C27 (a filter throws): when a filter throws in the filter chain of an
\* emit call, the promise of emit rejects, the event is not appended to the
\* history and no listener is ever invoked for it.
C27_FilterThrowRejectsEmit ==
  [][C27_ThrowingEmitStep]_vars /\ []C27_ThrownStaysOut

\* C27 witness: a filter threw on a chat event while a chat listener and a
\* wildcard listener were subscribed: the emit was rejected; a later event
\* was accepted and delivered.
C27_Witness ==
  /\ Len(tasks) = 2
  /\ tasks[1].pc = "rejected"
  /\ tasks[1].event.type = "chat"
  /\ atEmit[1].type # {} /\ atEmit[1].wild # {}
  /\ eventHistory = <<tasks[2].event>>
  /\ tasks[2].pc = "done"
  /\ \E i \in 1..Len(calls) : calls[i].ev = 2

\* ------------------------------------- clearHistory, removeAllListeners
\* A clearHistory call empties the history and changes nothing else.
C29_ClearHistoryStep ==
  opCount'.clearHistory # opCount.clearHistory =>
    /\ eventHistory' = <<>>
    /\ UNCHANGED <<listeners, globalListeners, filters, maxHistorySize>>

\* A removeAllListeners call empties the listener sets and changes nothing
\* of the filters, the history and the capacity.
C29_RemoveAllListenersStep ==
  opCount'.removeAllListeners # opCount.removeAllListeners =>
    /\ listeners' = EmptyMap
    /\ globalListeners' = <<>>
    /\ UNCHANGED <<filters, eventHistory, maxHistorySize>>

\* An emit call after removeAllListeners: an event a filter rejects is
\* dropped, any other is appended to the history: it is the newest entry.
C29_EmitAfterRemoveAll ==
  (opCount.removeAllListeners > 0 /\ nEmits' = nEmits + 1) =>
    LET e == tasks'[nEmits'].event IN
    IF SomeFilterReturnsFalse(filters, e)
    THEN tasks'[nEmits'].pc = "filtered" /\ eventHistory' = eventHistory
    ELSE /\ Accepted(tasks'[nEmits'])
         /\ Len(eventHistory') >= Len(eventHistory)
         /\ eventHistory' # <<>>
         /\ eventHistory'[Len(eventHistory')] = e

\* C29 (frames): clearHistory empties the history and leaves the listener
\* sets, the filters and the capacity as they are; removeAllListeners
\* empties the kind and the wildcard listener sets and leaves the filters,
\* the history and the capacity as they are, so later events are still
\* filtered and recorded.
C29_ClearAndRemoveAllFrames ==
  [][C29_ClearHistoryStep /\ C29_RemoveAllListenersStep /\ C29_EmitAfterRemoveAll]_vars

\* C29 witness: the first event was delivered to a wildcard listener and
\* recorded; then the history was cleared and all listeners were removed
\* with a filter registered; the second event was rejected by the filter,
\* the third was recorded and delivered to nobody.
C29_Witness ==
  /\ opCount.clearHistory = 1 /\ opCount.removeAllListeners = 1
  /\ Len(tasks) = 3
  /\ atEmit[1].wild # {} /\ tasks[1].pc = "done"
  /\ tasks[2].pc = "filtered"
  /\ atEmit[3].wild = {} /\ atEmit[3].type = {} /\ tasks[3].pc = "done"
  /\ filters # <<>>
  /\ eventHistory = <<tasks[3].event>>
  /\ \A i \in 1..Len(calls) : calls[i].ev = 1

====
